---- MODULE Spec2Model ----
(***************************************************************************)
(* NirmaanAI (src/index.tsx): the conversational plan-generation pipeline  *)
(* of the Hero component, the App that switches between Hero and           *)
(* PlanDashboard, and the PlanDashboard operations that change the plan    *)
(* (refine, verify).                                                       *)
(*                                                                         *)
(* Conventions.                                                            *)
(*  - A string the user can type is a sequence of characters, so that      *)
(*    String.prototype.trim is computed and not assumed.  Fixed texts of   *)
(*    the program are one-element sequences holding the whole text.        *)
(*  - A JSON object is a function from its keys to its values; a key that  *)
(*    is absent from the object is absent from the DOMAIN.                 *)
(*  - Array positions are 1-based here and 0-based in the source.          *)
(*  - Each action is one run of a handler between two awaits: React        *)
(*    batches the state updates of one such run and re-renders before the  *)
(*    next event is dispatched (createRoot, line 1708).                    *)
(*  - A component's state is kept while the component is unmounted and is  *)
(*    re-initialised when it is mounted again (useState initial values).   *)
(*  - last is a history variable: the step taken last, with what that      *)
(*    step read.                                                           *)
(***************************************************************************)
EXTENDS Integers, Sequences, FiniteSets, TLC

VARIABLES
    rootMounted,      \* the React root still renders (no render has thrown)
    generatedPlan,    \* App: useState<BusinessPlan | null>
    session,          \* number of Hero instances unmounted so far by a reset
    handed,           \* number of onPlanGenerated calls so far
    transcript,       \* Hero: input text
    messages,         \* Hero: turn history
    processingState,  \* Hero: 'idle' | 'analyzing' | 'researching' | 'generating'
    pipelines,        \* Hero: startAnalysis runs suspended at an await
    submitted,        \* number of startAnalysis runs that went past the trim check
    currentPlan,      \* PlanDashboard: the plan shown
    chatHistory,      \* PlanDashboard: refinement turns
    chatInput,        \* PlanDashboard: refinement input text
    isRefining,       \* PlanDashboard: busy flag of refine
    verifyingLegal,   \* PlanDashboard: index being verified, 0 for null
    completedSteps,   \* PlanDashboard: checklist positions ticked
    scriptContextInput,   \* PlanDashboard: context typed for a new script
    isGeneratingScript,   \* PlanDashboard: busy flag of the script calls
    customPrice,          \* PlanDashboard: calculator, selling price
    customVariableCost,   \* PlanDashboard: calculator, variable cost per unit
    customFixedCost,      \* PlanDashboard: calculator, fixed costs
    scriptCalls,      \* PlanDashboard: script handlers suspended at the await
    pdf,              \* PlanDashboard: the run of handleDownloadPDF
    refineCalls,      \* PlanDashboard: handleRefine runs suspended at the await
    verifyCalls,      \* PlanDashboard: handleVerifyLegal runs suspended at the await
    started,          \* number of dashboard backend calls started so far
    verifyLog,        \* history: the verify calls that patched the plan
    last              \* history: the last step

appVars  == <<rootMounted, generatedPlan, session, handed>>
heroVars == <<transcript, messages, processingState, pipelines, submitted>>
scriptVars == <<scriptContextInput, isGeneratingScript>>
calcVars == <<customPrice, customVariableCost, customFixedCost>>
toolVars == <<scriptVars, calcVars, scriptCalls, pdf>>
dashVars == <<currentPlan, chatHistory, chatInput, isRefining, verifyingLegal,
              completedSteps, refineCalls, verifyCalls, started, verifyLog,
              toolVars>>
vars     == <<appVars, heroVars, dashVars, last>>

----------------------------------------------------------------------------
(* Bounds of the model *)

MaxSubmits == 3
MaxCalls == 2
MaxAppSubmits == 2
MaxAmount == 5
MaxLen == 4
MaxItems == 3

----------------------------------------------------------------------------
(* Texts *)

Space == " "

\* what the user types or dictates into the Hero input: nothing, a blank, a
\* word, a word after a blank
Texts == {<<>>, <<Space>>, <<"a">>, <<Space, "a">>}
\* what the user types into the refine form: nothing, a blank, a word
ChatTexts == {<<>>, <<Space>>, <<"a">>}

RECURSIVE TrimStart(_)
TrimStart(s) ==
    IF s = <<>> THEN <<>>
    ELSE IF Head(s) = Space THEN TrimStart(Tail(s)) ELSE s

RECURSIVE TrimEnd(_)
TrimEnd(s) ==
    IF s = <<>> THEN <<>>
    ELSE IF s[Len(s)] = Space THEN TrimEnd(SubSeq(s, 1, Len(s) - 1)) ELSE s

TrimNothing(s) == s
Trim(s) == TrimEnd(TrimStart(s))

\* a string is falsy exactly when it is empty
TruthyTextAlways(s) == TRUE
TruthyText(s) == s # <<>>

----------------------------------------------------------------------------
(* Numbers: a JavaScript number is NaN, an infinity, or the finite decimal   *)
(* m / 10^e, kept with the least e.                                          *)

RECURSIVE Pow10(_)
Pow10(e) == IF e = 0 THEN 1 ELSE 10 * Pow10(e - 1)

NaN         == [k |-> "NaN", m |-> 0, e |-> 0]
Infinity    == [k |-> "Infinity", m |-> 0, e |-> 0]
NegInfinity == [k |-> "-Infinity", m |-> 0, e |-> 0]

RECURSIVE Decimal(_, _)
Decimal(m, e) ==
    IF e > 0 /\ m % 10 = 0 THEN Decimal(m \div 10, e - 1)
    ELSE [k |-> "finite", m |-> m, e |-> e]

Number(n) == Decimal(n, 0)

isFinite(x) == x.k = "finite"

Max(a, b) == IF a >= b THEN a ELSE b

\* the numerator of x over 10^e, for e >= x.e
Scaled(x, e) == x.m * Pow10(e - x.e)

\* x + y
Plus(x, y) ==
    IF x.k = "NaN" \/ y.k = "NaN" THEN NaN
    ELSE IF isFinite(x) /\ isFinite(y)
         THEN Decimal(Scaled(x, Max(x.e, y.e)) + Scaled(y, Max(x.e, y.e)), Max(x.e, y.e))
    ELSE IF isFinite(x) THEN y
    ELSE IF isFinite(y) \/ x = y THEN x
    ELSE NaN

\* -x
Negate(x) ==
    IF isFinite(x) THEN Decimal(0 - x.m, x.e)
    ELSE IF x = Infinity THEN NegInfinity
    ELSE IF x = NegInfinity THEN Infinity
    ELSE NaN

\* x - y
Minus(x, y) == Plus(x, Negate(y))

\* x > 0
Positive(x) == x = Infinity \/ (isFinite(x) /\ x.m > 0)

\* the least integer not below a / b, for integers a and b > 0
RoundedDown(a, b) == IF a >= 0 THEN a \div b ELSE 0 - ((0 - a + b - 1) \div b)
CeilOfRatio(a, b) == IF a >= 0 THEN (a + b - 1) \div b ELSE 0 - ((0 - a) \div b)

\* Math.ceil(x / y) for finite or NaN x and y; a zero result stands for both
\* zeros of JavaScript
CeilOfQuotient(x, y) ==
    IF ~isFinite(x) \/ ~isFinite(y) THEN NaN
    ELSE IF y.m = 0
         THEN IF x.m = 0 THEN NaN ELSE IF x.m > 0 THEN Infinity ELSE NegInfinity
    ELSE LET e == Max(x.e, y.e)
             a == Scaled(x, e)
             b == Scaled(y, e)
         IN  Number(IF b > 0 THEN CeilOfRatio(a, b) ELSE CeilOfRatio(0 - a, 0 - b))

----------------------------------------------------------------------------
(* parseFloat and parseCurrency *)

Digits == <<"0", "1", "2", "3", "4", "5", "6", "7", "8", "9">>

IsDigit(c) == \E d \in 1..10 : Digits[d] = c
DigitValue(c) == (CHOOSE d \in 1..10 : Digits[d] = c) - 1

\* the characters of the class [\d,.]
InClass(c) == IsDigit(c) \/ c = "," \/ c = "."

\* the longest prefix of s made of digits
RECURSIVE LeadingDigits(_)
LeadingDigits(s) ==
    IF s # <<>> /\ IsDigit(Head(s)) THEN <<Head(s)>> \o LeadingDigits(Tail(s))
    ELSE <<>>

\* the natural number written by a sequence of digits, 0 for none
RECURSIVE NatOf(_)
NatOf(ds) ==
    IF ds = <<>> THEN 0
    ELSE 10 * NatOf(SubSeq(ds, 1, Len(ds) - 1)) + DigitValue(ds[Len(ds)])

\* parseFloat(s) for s made of digits and dots: the longest prefix that is a
\* decimal literal (digits, then possibly a dot and digits), NaN when that
\* prefix has no digit
parseFloat(s) ==
    LET int  == LeadingDigits(s)
        rest == SubSeq(s, Len(int) + 1, Len(s))
        frac == IF rest # <<>> /\ Head(rest) = "." THEN LeadingDigits(Tail(rest))
                ELSE <<>>
    IN  IF int = <<>> /\ frac = <<>> THEN NaN
        ELSE Decimal(NatOf(int \o frac), Len(frac))

\* str.match(/[\d,.]+/): the first longest run of class characters; <<>> for
\* no match (a match is never empty)
RECURSIVE LeadingRun(_)
LeadingRun(s) ==
    IF s # <<>> /\ InClass(Head(s)) THEN <<Head(s)>> \o LeadingRun(Tail(s))
    ELSE <<>>

RECURSIVE Match(_)
Match(s) ==
    IF s = <<>> THEN <<>>
    ELSE IF InClass(Head(s)) THEN LeadingRun(s)
    ELSE Match(Tail(s))

\* .replace(/,/g, '')
RemoveNothing(s) == s
RemoveCommas(s) == SelectSeq(s, LAMBDA c : c # ",")

\* parseCurrency(str); the empty sequence also stands for a missing string,
\* which `!str` treats alike
parseCurrency(str) ==
    IF ~TruthyText(str) THEN Number(0)
    ELSE IF Match(str) # <<>> THEN parseFloat(RemoveCommas(Match(str)))
    ELSE Number(0)

----------------------------------------------------------------------------
(* JSON values and backend responses *)

JsonNull == [ty |-> "null"]

\* obj.f || dflt, for a string-valued key f
OrElseWhenAbsent(obj, f, dflt) ==
    IF f \in DOMAIN obj THEN obj[f] ELSE dflt
OrElse(obj, f, dflt) ==
    IF f \in DOMAIN obj /\ TruthyText(obj[f]) THEN obj[f] ELSE dflt

\* What `await ai.models.generateContent(...)` followed by `response.text` gives:
\* the call rejects, or it resolves with a text that is undefined, empty,
\* not JSON, or the serialisation of the JSON value v.
Rejected    == [t |-> "throw"]
NoText      == [t |-> "undefined"]
EmptyText   == [t |-> "empty"]
GarbageText == [t |-> "garbage"]
JsonText(v) == [t |-> "json", v |-> v]

ResponsesOf(values) ==
    {Rejected, NoText, EmptyText, GarbageText} \cup {JsonText(v) : v \in values}

\* `if (jsonText)`
TruthyResponseText(r) == r.t \in {"garbage", "json"}

\* JSON.parse(response.text!) throws SyntaxError unless the text is JSON
ParseThrows(r) == r.t # "json"
JSONParse(r) == r.v

----------------------------------------------------------------------------
(* Sample data the backend answers with *)

\* RegulatoryDetail values; the first has no local_authority_details
LegalA1 == [name |-> "FSSAI", step_by_step |-> "apply online",
            estimated_cost |-> "Rs 100", processing_time |-> "7 days",
            documents_required |-> <<"Aadhar">>, learn_more_url |-> "fssai.gov.in"]
LegalA2 == [name |-> "Trade License", step_by_step |-> "visit ward office",
            estimated_cost |-> "Rs 500", processing_time |-> "30 days",
            documents_required |-> <<"PAN", "Rental Agreement">>,
            learn_more_url |-> "bbmp.gov.in", local_authority_details |-> "BBMP"]
LegalB1 == [name |-> "Shop Act", step_by_step |-> "apply at BMC",
            estimated_cost |-> "Rs 900", processing_time |-> "15 days",
            documents_required |-> <<"PAN">>, learn_more_url |-> "bmc.gov.in",
            local_authority_details |-> "BMC"]

ScriptA1 == [context |-> "Landlord", script |-> "namaste"]
ScriptB1 == [context |-> "Supplier", script |-> "namaskar", tone |-> "Polite"]

PlanA == [idea_summary |-> "tea stall", target_location |-> "Indiranagar",
          budget_estimate |-> [min |-> 10, max |-> 20, currency |-> "INR"],
          business_plan |-> "chai, office goers, mornings",
          market_insights |-> "Indiranagar insights",
          financial_breakdown |->
             [variable_costs_per_unit |-> <<"R", "s", "4", "0">>,
              profit_margin_per_unit |-> <<"R", "s", "6", "0">>,
              fixed_costs_monthly |-> << <<"R", "s", "6", ",", "0", "0", "0">> >>,
              break_even_analysis |-> "100 cups a month"],
          marketing_strategy |-> <<"WhatsApp list">>,
          setup_checklist |-> <<"buy cart", "get license">>,
          legal_requirements |-> <<LegalA1, LegalA2>>,
          vendor_scripts |-> <<ScriptA1>>,
          estimated_daily_profit |-> "Rs 800",
          optimization_suggestions |-> <<"add snacks">>]

PlanB == [idea_summary |-> "tea stall", target_location |-> "Dadar",
          budget_estimate |-> [min |-> 8, max |-> 16, currency |-> "INR"],
          business_plan |-> "chai, commuters, evenings",
          market_insights |-> "Dadar insights",
          financial_breakdown |->
             [variable_costs_per_unit |-> <<"R", "s", "3", "0">>,
              profit_margin_per_unit |-> <<"R", "s", "2", "0">>,
              fixed_costs_monthly |-> << <<"R", "s", "1", ",", "0", "0", "0">>,
                                         <<"R", "s", "5", "0", "0">> >>,
              break_even_analysis |-> "75 cups a month"],
          marketing_strategy |-> <<"Subscription">>,
          setup_checklist |-> <<"rent kiosk">>,
          legal_requirements |-> <<LegalB1>>,
          vendor_scripts |-> <<ScriptB1>>,
          estimated_daily_profit |-> "Rs 600",
          optimization_suggestions |-> <<"cut sugar cost">>]

BackendPlans == {PlanA, PlanB}

\* a JSON value is falsy when it is null (the values here are null or objects)
Truthy(v) == v # JsonNull

\* AnalysisResult values
AskWhere == <<"Where in Bangalore do you want to start?">>
AnalysisJson ==
    { JsonNull,
      <<>>,
      [is_sufficient |-> FALSE],
      [is_sufficient |-> FALSE, clarification_question |-> <<>>],
      [is_sufficient |-> FALSE, clarification_question |-> AskWhere],
      [is_sufficient |-> TRUE],
      [is_sufficient |-> TRUE, search_query |-> <<"tea stall permits Indiranagar">>,
       identified_business |-> <<"tea stall">>, identified_location |-> <<"Indiranagar">>],
      [is_sufficient |-> TRUE, identified_business |-> <<"tea stall">>,
       identified_location |-> <<"Indiranagar">>] }

AnalysisResponses == ResponsesOf(AnalysisJson)
\* the research answer is prose and is not parsed
ResearchResponses == {Rejected, NoText, EmptyText, GarbageText}
PlanResponses     == ResponsesOf(BackendPlans \cup {JsonNull})

----------------------------------------------------------------------------
(* App: which component is mounted *)

HeroMounted      == rootMounted /\ ~Truthy(generatedPlan)
DashboardMounted == rootMounted /\ Truthy(generatedPlan)

\* PlanDashboard's render dereferences the fields of currentPlan
RenderThrows(plan) == plan = JsonNull

\* the effect PlanDashboard runs once when it is mounted sets the calculator
\* from the plan
RECURSIVE SumCurrency(_)
SumCurrency(strs) ==
    IF strs = <<>> THEN Number(0)
    ELSE Plus(SumCurrency(SubSeq(strs, 1, Len(strs) - 1)), parseCurrency(strs[Len(strs)]))

InitialVariableCost(plan) == parseCurrency(plan.financial_breakdown.variable_costs_per_unit)
InitialPrice(plan) ==
    Plus(InitialVariableCost(plan),
         parseCurrency(plan.financial_breakdown.profit_margin_per_unit))
InitialFixedCost(plan) == SumCurrency(plan.financial_breakdown.fixed_costs_monthly)

\* no run of handleDownloadPDF
PdfIdle == [section |-> "idle", y |-> 0, at |-> 0]

\* setGeneratedPlan(v): App re-renders.  A falsy value shows a new Hero, a
\* truthy one after a falsy one shows a new PlanDashboard whose state starts
\* from the plan; a truthy one after a truthy one only changes the prop, which
\* useState(plan) does not read again.
setGeneratedPlan(v) ==
    /\ generatedPlan' = v
    /\ IF Truthy(generatedPlan) /\ ~Truthy(v)
       THEN /\ session' = session + 1
            /\ transcript' = <<>>
            /\ messages' = <<>>
            /\ processingState' = "idle"
       ELSE UNCHANGED <<session, transcript, messages, processingState>>
    /\ IF ~Truthy(generatedPlan) /\ Truthy(v)
       THEN /\ currentPlan' = v
            /\ chatHistory' = <<>>
            /\ chatInput' = <<>>
            /\ isRefining' = FALSE
            /\ verifyingLegal' = 0
            /\ completedSteps' = {}
            /\ scriptContextInput' = <<>>
            /\ isGeneratingScript' = FALSE
            /\ customPrice' = InitialPrice(v)
            /\ customVariableCost' = InitialVariableCost(v)
            /\ customFixedCost' = InitialFixedCost(v)
            /\ rootMounted' = (rootMounted /\ ~RenderThrows(v))
       ELSE UNCHANGED <<currentPlan, chatHistory, chatInput, isRefining,
                        verifyingLegal, completedSteps, scriptVars, calcVars,
                        rootMounted>>

----------------------------------------------------------------------------
(* Hero: the conversation state machine *)

UserTurn(t) == [role |-> "user", text |-> t]
AiTurn(t)   == [role |-> "ai", text |-> t]

ClarifyFallback == <<"Could you provide more details about the location or idea?">>
ErrorText == <<"I encountered an error analyzing that. Could you try again?">>

\* the input area is rendered only when processingState is 'idle'
InputRenderedSkip == TRUE
InputRendered == processingState = "idle"

HeroInputRendered == HeroMounted /\ InputRendered

\* state setters of the Hero instance that runs pipeline p: no effect once that
\* instance is unmounted
HeroAlive(p) == HeroMounted /\ p.session = session

\* what the catch block appends
OnErrorSilent(msgs) == msgs
OnError(msgs) == Append(msgs, AiTurn(ErrorText))

\* `!analysis.is_sufficient`
SufficientAlways(a) == TRUE
Sufficient(a) == "is_sufficient" \in DOMAIN a /\ a.is_sufficient

\* the stage entered after the analysis result
AfterAnalysisSkip(a) == IF Sufficient(a) THEN "generating" ELSE "idle"
AfterAnalysis(a) == IF Sufficient(a) THEN "researching" ELSE "idle"

\* `${x}` of an optional string
Interpolate(obj, f) == IF f \in DOMAIN obj THEN obj[f] ELSE <<"undefined">>

\* the template of lines 525-533, as the sequence of its fixed parts and of
\* the interpolated values
QueryTemplate(b, l) ==
    <<"Start">> \o b \o <<"in">> \o l \o <<"India guide. Find:">>
    \o <<"1. Exact government permits fees and process for">> \o b \o <<"in">> \o l
    \o <<"2. Real estate rental listings for commercial shop in">> \o l \o <<"price.">>
    \o <<"3. Wholesale rates for raw materials for">> \o b \o <<"in">> \o l
    \o <<"4. Competitor menu pricing.">>
    \o <<"5. Specific government schemes for street vendors or small business in">> \o l

\* researchQuery: analysis.search_query || the template
ResearchQueryTemplateOnly(a) ==
    QueryTemplate(Interpolate(a, "identified_business"),
                  Interpolate(a, "identified_location"))
ResearchQuery(a) ==
    OrElse(a, "search_query",
           QueryTemplate(Interpolate(a, "identified_business"),
                         Interpolate(a, "identified_location")))

newMessagesLatestOnly(p) == <<UserTurn(p.userText)>>
newMessagesOf(p) == Append(p.messages0, UserTurn(p.userText))

\* m.role.toUpperCase()
ToUpperCase(role) == IF role = "user" THEN "USER" ELSE "AI"

\* historyText, the conversation sent with the analysis call: one line per
\* turn of newMessages, as the pair of its role and its text
historyText(p) ==
    [i \in 1..Len(newMessagesOf(p)) |->
        <<ToUpperCase(newMessagesOf(p)[i].role), newMessagesOf(p)[i].text>>]

SetTranscript(t) ==
    /\ HeroMounted
    /\ t # transcript
    /\ transcript' = t
    /\ UNCHANGED <<appVars, messages, processingState, pipelines, submitted, dashVars>>
    /\ last' = [op |-> "setTranscript"]

\* startAnalysis up to its first await
startAnalysis ==
    /\ HeroInputRendered
    /\ submitted < MaxSubmits
    /\ IF ~TruthyText(Trim(transcript))
       THEN /\ UNCHANGED <<appVars, heroVars, dashVars>>
            /\ last' = [op |-> "startAnalysis", accepted |-> FALSE]
       ELSE /\ transcript' = <<>>
            /\ messages' = Append(messages, UserTurn(transcript))
            /\ processingState' = "analyzing"
            /\ submitted' = submitted + 1
            /\ pipelines' = pipelines \cup
                 {[id |-> submitted + 1, session |-> session, stage |-> "analysis",
                   messages0 |-> messages, userText |-> transcript,
                   analysis |-> <<>>, query |-> <<>>]}
            /\ UNCHANGED <<appVars, dashVars>>
            /\ last' = [op |-> "startAnalysis", accepted |-> TRUE]

\* the catch block of startAnalysis
Catch(p) ==
    /\ IF HeroAlive(p)
       THEN /\ processingState' = "idle"
            /\ messages' = OnError(messages)
       ELSE UNCHANGED <<processingState, messages>>
    /\ pipelines' = pipelines \ {p}
    /\ UNCHANGED <<appVars, transcript, submitted, dashVars>>

\* what a settled call of the pipeline leaves in the history variable
Settled(op, p, r) == [op |-> op, r |-> r]

\* the analysis call settles: lines 512-540
AnalysisDone(p, r) ==
    /\ p.stage = "analysis"
    /\ last' = Settled("analysisDone", p, r)
    /\ IF ParseThrows(r) \/ JSONParse(r) = JsonNull
       THEN Catch(p)
       ELSE LET analysis == JSONParse(r) IN
            /\ IF HeroAlive(p)
               THEN /\ processingState' = AfterAnalysis(analysis)
                    /\ messages' =
                         IF Sufficient(analysis) THEN messages
                         ELSE Append(messages,
                                AiTurn(OrElse(analysis, "clarification_question",
                                              ClarifyFallback)))
               ELSE UNCHANGED <<processingState, messages>>
            /\ pipelines' =
                 IF Sufficient(analysis)
                 THEN (pipelines \ {p}) \cup
                      {[p EXCEPT !.stage = "research", !.analysis = analysis,
                                 !.query = ResearchQuery(analysis)]}
                 ELSE pipelines \ {p}
            /\ UNCHANGED <<appVars, transcript, submitted, dashVars>>

\* the research call settles: lines 550-560
ResearchDone(p, r) ==
    /\ p.stage = "research"
    /\ last' = Settled("researchDone", p, r)
    /\ IF r = Rejected
       THEN Catch(p)
       ELSE /\ IF HeroAlive(p)
               THEN processingState' = "generating"
               ELSE UNCHANGED processingState
            /\ pipelines' = (pipelines \ {p}) \cup {[p EXCEPT !.stage = "plan"]}
            /\ UNCHANGED <<appVars, transcript, messages, submitted, dashVars>>

\* the plan call settles: lines 593-594
PlanDone(p, r) ==
    /\ p.stage = "plan"
    /\ last' = Settled("planDone", p, r)
    /\ IF ParseThrows(r)
       THEN Catch(p)
       ELSE /\ setGeneratedPlan(JSONParse(r))
            /\ handed' = handed + 1
            /\ pipelines' = pipelines \ {p}
            /\ UNCHANGED <<submitted, refineCalls, verifyCalls, started, verifyLog,
                           scriptCalls, pdf>>

\* the back button of the dashboard header: onReset
Reset ==
    /\ DashboardMounted
    /\ setGeneratedPlan(JsonNull)
    /\ UNCHANGED <<handed, pipelines, submitted, refineCalls, verifyCalls,
                   started, verifyLog, scriptCalls, pdf>>
    /\ last' = [op |-> "reset"]

InitApp ==
    /\ rootMounted = TRUE
    /\ generatedPlan = JsonNull
    /\ session = 0
    /\ handed = 0

InitHero ==
    /\ transcript = <<>>
    /\ messages = <<>>
    /\ processingState = "idle"
    /\ pipelines = {}
    /\ submitted = 0

\* the dashboard is not mounted: its state has no reader until it is
InitNoDashboard ==
    /\ currentPlan = JsonNull
    /\ chatHistory = <<>>
    /\ chatInput = <<>>
    /\ isRefining = FALSE
    /\ verifyingLegal = 0
    /\ completedSteps = {}
    /\ scriptContextInput = <<>>
    /\ isGeneratingScript = FALSE
    /\ customPrice = Number(0)
    /\ customVariableCost = Number(0)
    /\ customFixedCost = Number(0)
    /\ scriptCalls = {}
    /\ pdf = PdfIdle
    /\ refineCalls = {}
    /\ verifyCalls = {}
    /\ started = 0
    /\ verifyLog = {}

Init ==
    /\ InitApp
    /\ InitHero
    /\ InitNoDashboard
    /\ last = [op |-> "init"]

NextHero ==
    \/ \E t \in Texts : SetTranscript(t)
    \/ startAnalysis
    \/ \E p \in pipelines, r \in AnalysisResponses : AnalysisDone(p, r)
    \/ \E p \in pipelines, r \in ResearchResponses : ResearchDone(p, r)
    \/ \E p \in pipelines, r \in PlanResponses : PlanDone(p, r)
    \/ Reset

SpecHero == Init /\ [][NextHero]_vars

----------------------------------------------------------------------------
(* PlanDashboard: refinement *)

quickRefinePrompts ==
    << <<"Add vegetarian options">>, <<"Reduce startup cost by 20%">>,
       <<"Shift to a busy market area">>, <<"Focus on college students">> >>

\* handleRefine called without manualInput
NoManualInput == <<>>

ConfirmText == <<"Plan updated. Please review the dashboard.">>
SolicitText == <<"How does this look?">>
ApologyText == <<"Sorry, I couldn't process that update. Try again.">>

RefineResponses == ResponsesOf(BackendPlans \cup {JsonNull})

\* state setters of the PlanDashboard instance that runs call c: no effect once
\* that instance is unmounted
DashAliveAnySession(c) == DashboardMounted
DashAlive(c) == DashboardMounted /\ c.session = session

\* the send button of the refine form is disabled while isRefining, and a form
\* whose default button is disabled is not submitted by Enter either
FormSubmittable == ~isRefining

\* the quick-prompt buttons carry no disabled attribute
QuickPromptClickable == TRUE

\* setCurrentPlan(newPlan) of handleRefine
ApplyRefineKeepScripts(prev, newPlan) ==
    IF newPlan = JsonNull THEN newPlan
    ELSE [newPlan EXCEPT !.vendor_scripts = prev.vendor_scripts]
ApplyRefine(prev, newPlan) == newPlan

SetChatInput(t) ==
    /\ DashboardMounted
    /\ t # chatInput
    /\ chatInput' = t
    /\ UNCHANGED <<appVars, heroVars, currentPlan, chatHistory, isRefining,
                   verifyingLegal, completedSteps, refineCalls, verifyCalls,
                   started, verifyLog,
                   toolVars>>
    /\ last' = [op |-> "setChatInput"]

\* handleRefine up to its await
handleRefine(manualInput, via) ==
    LET inputToUse == IF TruthyText(manualInput) THEN manualInput ELSE chatInput
        accepted   == TruthyText(Trim(inputToUse))
    IN  /\ started < MaxCalls
        /\ last' = [op |-> "handleRefine", via |-> via, accepted |-> accepted]
        /\ IF ~accepted
           THEN UNCHANGED <<appVars, heroVars, dashVars>>
           ELSE /\ chatInput' = <<>>
                /\ chatHistory' = Append(chatHistory, UserTurn(inputToUse))
                /\ isRefining' = TRUE
                /\ started' = started + 1
                /\ refineCalls' = refineCalls \cup
                     {[id |-> started + 1, session |-> session]}
                /\ UNCHANGED <<appVars, heroVars, currentPlan, verifyingLegal,
                               completedSteps, verifyCalls, verifyLog,
                   toolVars>>

RefineFromForm ==
    /\ DashboardMounted
    /\ FormSubmittable
    /\ handleRefine(NoManualInput, "form")

RefineFromQuickPrompt(i) ==
    /\ DashboardMounted
    /\ QuickPromptClickable
    /\ handleRefine(quickRefinePrompts[i], "quick")

\* the refine call settles: lines 914-932
RefineDone(c, r) ==
    /\ refineCalls' = refineCalls \ {c}
    /\ last' = [op |-> "refineDone", r |-> r, alive |-> DashAlive(c)]
    /\ UNCHANGED <<generatedPlan, session, handed, heroVars, chatInput,
                   verifyingLegal, completedSteps, verifyCalls, started, verifyLog,
                   toolVars>>
    /\ IF ~DashAlive(c)
       THEN UNCHANGED <<rootMounted, currentPlan, chatHistory, isRefining>>
       ELSE /\ isRefining' = FALSE
            /\ IF r = Rejected
               THEN /\ chatHistory' = Append(chatHistory, AiTurn(ApologyText))
                    /\ UNCHANGED <<rootMounted, currentPlan>>
               ELSE IF ~TruthyResponseText(r)
               THEN UNCHANGED <<rootMounted, currentPlan, chatHistory>>
               ELSE IF ParseThrows(r)
               THEN /\ chatHistory' = Append(chatHistory, AiTurn(ApologyText))
                    /\ UNCHANGED <<rootMounted, currentPlan>>
               ELSE /\ currentPlan' = ApplyRefine(currentPlan, JSONParse(r))
                    /\ chatHistory' = chatHistory \o
                         <<AiTurn(ConfirmText), AiTurn(SolicitText)>>
                    /\ rootMounted' = ~RenderThrows(currentPlan')

----------------------------------------------------------------------------
(* PlanDashboard: verification of one legal entry *)

\* the own properties a spread copies: none for null
Props(v) == IF v = JsonNull THEN <<>> ELSE v

\* { ...old, ...new }
ObjectSpreadReplace(old, new) == Props(new)
ObjectSpread(old, new) ==
    [f \in DOMAIN Props(old) \cup DOMAIN Props(new) |->
        IF f \in DOMAIN Props(new) THEN Props(new)[f] ELSE Props(old)[f]]

\* partial RegulatoryDetail values the verify call answers with
VerifyJson ==
    { JsonNull,
      <<>>,
      [estimated_cost |-> "Rs 200", documents_required |-> <<"Form A", "Aadhar">>,
       local_authority_details |-> "BBMP ward 80"],
      [name |-> "FSSAI Basic", estimated_cost |-> "Rs 120",
       learn_more_url |-> "foscos.fssai.gov.in"] }

VerifyResponses == ResponsesOf(VerifyJson)

\* `item`: the entry the handler read when it was called
itemOf(c) == c.plan.legal_requirements[c.index]

\* newReqs: a copy of the list the handler's render saw, with one slot patched
newReqsTruncated(c, updatedItem) == <<ObjectSpread(itemOf(c), updatedItem)>>
newReqs(c, updatedItem) ==
    [c.plan.legal_requirements EXCEPT ![c.index] = ObjectSpread(itemOf(c), updatedItem)]

\* the Verify button of each legal entry: handleVerifyLegal up to its await
handleVerifyLegal(index) ==
    /\ DashboardMounted
    /\ started < MaxCalls
    /\ index \in 1..Len(currentPlan.legal_requirements)
    /\ verifyingLegal' = index
    /\ started' = started + 1
    /\ verifyCalls' = verifyCalls \cup
         {[id |-> started + 1, session |-> session, index |-> index,
           plan |-> currentPlan,
           concurrent |-> {d.id : d \in {e \in verifyCalls : DashAlive(e)}}]}
    /\ UNCHANGED <<appVars, heroVars, currentPlan, chatHistory, chatInput,
                   isRefining, completedSteps, refineCalls, verifyLog,
                   toolVars>>
    /\ last' = [op |-> "handleVerifyLegal", index |-> index]

\* finally { setVerifyingLegal(null) }: 0 stands for null
setVerifyingLegalSkipped(verifying) == verifying
setVerifyingLegalNull(verifying) == 0

\* the verify call settles: lines 1042-1054
VerifyDone(c, r) ==
    /\ verifyCalls' = verifyCalls \ {c}
    /\ last' = [op |-> "verifyDone", r |-> r, alive |-> DashAlive(c)]
    /\ UNCHANGED <<appVars, heroVars, chatHistory, chatInput, isRefining,
                   completedSteps, refineCalls, started,
                   toolVars>>
    /\ IF ~DashAlive(c)
       THEN UNCHANGED <<currentPlan, verifyingLegal, verifyLog>>
       ELSE /\ verifyingLegal' = setVerifyingLegalNull(verifyingLegal)
            /\ IF ParseThrows(r)
               THEN UNCHANGED <<currentPlan, verifyLog>>
               ELSE /\ currentPlan' =
                         [currentPlan EXCEPT
                            !.legal_requirements = newReqs(c, JSONParse(r))]
                    /\ verifyLog' = verifyLog \cup
                         {[id |-> c.id, index |-> c.index, patch |-> JSONParse(r),
                           concurrent |-> c.concurrent]}

----------------------------------------------------------------------------
(* The dashboard on its own: it starts when a generated plan mounts it *)

InitDash ==
    /\ rootMounted = TRUE
    /\ generatedPlan \in BackendPlans
    /\ session = 0
    /\ handed = 1
    /\ transcript = <<>>
    /\ messages = <<UserTurn(<<"a">>)>>
    /\ processingState = "generating"
    /\ pipelines = {}
    /\ submitted = 1
    /\ currentPlan = generatedPlan
    /\ chatHistory = <<>>
    /\ chatInput = <<>>
    /\ isRefining = FALSE
    /\ verifyingLegal = 0
    /\ completedSteps = {}
    /\ scriptContextInput = <<>>
    /\ isGeneratingScript = FALSE
    /\ customPrice = InitialPrice(generatedPlan)
    /\ customVariableCost = InitialVariableCost(generatedPlan)
    /\ customFixedCost = InitialFixedCost(generatedPlan)
    /\ scriptCalls = {}
    /\ pdf = PdfIdle
    /\ refineCalls = {}
    /\ verifyCalls = {}
    /\ started = 0
    /\ verifyLog = {}
    /\ last = [op |-> "init"]

NextDash ==
    \/ \E t \in ChatTexts : SetChatInput(t)
    \/ RefineFromForm
    \/ \E i \in 1..Len(quickRefinePrompts) : RefineFromQuickPrompt(i)
    \/ \E c \in refineCalls, r \in RefineResponses : RefineDone(c, r)
    \/ \E i \in 1..2 : handleVerifyLegal(i)
    \/ \E c \in verifyCalls, r \in VerifyResponses : VerifyDone(c, r)

SpecDash == InitDash /\ [][NextDash]_vars

----------------------------------------------------------------------------
(* PlanDashboard: rating of a refinement turn, checklist *)

AdjustText == <<"I'd like to adjust...">>
FeedbackTypes == {"up", "down"}

\* newHistory[index].feedback = type
WithFeedback(turn, type) ==
    [f \in DOMAIN turn \cup {"feedback"} |-> IF f = "feedback" THEN type ELSE turn[f]]

\* newHistory of handleFeedback: the turns, with the rating set on the turn at
\* index when there is one
newHistoryRateAll(history, index, type) ==
    [j \in 1..Len(history) |-> WithFeedback(history[j], type)]
newHistory(history, index, type) ==
    IF index \in 1..Len(history)
    THEN [history EXCEPT ![index] = WithFeedback(history[index], type)]
    ELSE history

\* the rating buttons are rendered under the last turn when it is an ai turn
RatingRenderedAnyAi(i) == chatHistory[i].role = "ai"
RatingRendered(i) == chatHistory[i].role = "ai" /\ i = Len(chatHistory)

handleFeedback(index, type) ==
    /\ chatHistory' = newHistory(chatHistory, index, type)
    /\ chatInput' = IF type = "down" THEN AdjustText ELSE chatInput
    /\ UNCHANGED <<appVars, heroVars, currentPlan, isRefining, verifyingLegal,
                   completedSteps, refineCalls, verifyCalls, started, verifyLog,
                   toolVars>>
    /\ last' = [op |-> "handleFeedback", index |-> index, type |-> type]

\* a click on a rating button
RateTurn(i, type) ==
    /\ DashboardMounted
    /\ i \in 1..Len(chatHistory)
    /\ RatingRendered(i)
    /\ handleFeedback(i, type)

\* newSet of toggleStep: index removed when it is in the set, added otherwise
newSetAddOnly(set, index) == set \cup {index}
newSet(set, index) == IF index \in set THEN set \ {index} ELSE set \cup {index}

\* a click on a checklist row
toggleStep(index) ==
    /\ DashboardMounted
    /\ index \in 1..Len(currentPlan.setup_checklist)
    /\ completedSteps' = newSet(completedSteps, index)
    /\ UNCHANGED <<appVars, heroVars, currentPlan, chatHistory, chatInput,
                   isRefining, verifyingLegal, refineCalls, verifyCalls, started,
                   verifyLog, toolVars>>
    /\ last' = [op |-> "toggleStep", index |-> index]

----------------------------------------------------------------------------
(* The whole App: Hero, then PlanDashboard, then Hero again after a reset *)

\* the answers of the backend in the runs of the whole App
AppAnalysisResponses ==
    {Rejected, JsonText([is_sufficient |-> FALSE, clarification_question |-> AskWhere]),
     JsonText([is_sufficient |-> TRUE])}
AppResearchResponses == {GarbageText}
AppPlanResponses == {JsonText(PlanA)}
AppRefineResponses == {JsonText(PlanB)}
AppVerifyResponses ==
    {JsonText([estimated_cost |-> "Rs 200",
               documents_required |-> <<"Form A", "Aadhar">>,
               local_authority_details |-> "BBMP ward 80"])}

NextApp ==
    \/ SetTranscript(<<"a">>)
    \/ submitted < MaxAppSubmits /\ startAnalysis
    \/ \E p \in pipelines, r \in AppAnalysisResponses : AnalysisDone(p, r)
    \/ \E p \in pipelines, r \in AppResearchResponses : ResearchDone(p, r)
    \/ \E p \in pipelines, r \in AppPlanResponses : PlanDone(p, r)
    \/ Reset
    \/ RefineFromQuickPrompt(1)
    \/ \E c \in refineCalls, r \in AppRefineResponses : RefineDone(c, r)
    \/ handleVerifyLegal(1)
    \/ \E c \in verifyCalls, r \in AppVerifyResponses : VerifyDone(c, r)
    \/ \E i \in 1..Len(chatHistory), type \in FeedbackTypes : RateTurn(i, type)
    \/ toggleStep(1)

SpecApp == Init /\ [][NextApp]_vars

----------------------------------------------------------------------------
(* PlanDashboard: vendor scripts *)

\* VendorScript values the script calls answer with; the second has the
\* context of a script of PlanA
ScriptNew1 == [context |-> "Supplier", script |-> "bhaiya, best rate?", tone |-> "Polite"]
ScriptNew2 == [context |-> "Landlord", script |-> "sir, about the deposit"]
ScriptJson == {ScriptNew1, ScriptNew2}
ScriptResponses == {Rejected, NoText, GarbageText} \cup {JsonText(v) : v \in ScriptJson}

\* the Generate button of the script form is disabled while isGeneratingScript
ScriptFormSubmittable == ~isGeneratingScript

\* [...prev.vendor_scripts, newScript]
AppendScriptInFront(scripts, newScript) == <<newScript>> \o scripts
AppendScript(scripts, newScript) == Append(scripts, newScript)

\* newScripts of handleRegenerateScript: a copy of the list the handler's
\* render saw, with one slot replaced
newScriptsOnlyTheNew(c, newScript) == <<newScript>>
newScripts(c, newScript) == [c.scripts EXCEPT ![c.index] = newScript]

SetScriptContextInput(t) ==
    /\ DashboardMounted
    /\ t # scriptContextInput
    /\ scriptContextInput' = t
    /\ UNCHANGED <<appVars, heroVars, currentPlan, chatHistory, chatInput,
                   isRefining, verifyingLegal, completedSteps, refineCalls,
                   verifyCalls, started, verifyLog, isGeneratingScript, calcVars,
                   scriptCalls, pdf>>
    /\ last' = [op |-> "setScriptContextInput"]

\* the script form is submitted: handleGenerateScript up to its await
handleGenerateScript ==
    /\ DashboardMounted
    /\ ScriptFormSubmittable
    /\ started < MaxCalls
    /\ LET accepted == TruthyText(Trim(scriptContextInput))
       IN  /\ last' = [op |-> "handleGenerateScript", accepted |-> accepted]
           /\ IF ~accepted
              THEN UNCHANGED <<appVars, heroVars, dashVars>>
              ELSE /\ isGeneratingScript' = TRUE
                   /\ started' = started + 1
                   /\ scriptCalls' = scriptCalls \cup
                        {[id |-> started + 1, session |-> session,
                          kind |-> "generate", index |-> 0, scripts |-> <<>>]}
                   /\ UNCHANGED <<appVars, heroVars, currentPlan, chatHistory,
                                  chatInput, isRefining, verifyingLegal,
                                  completedSteps, refineCalls, verifyCalls,
                                  verifyLog, scriptContextInput, calcVars, pdf>>

\* the Regenerate button of a script: handleRegenerateScript up to its await
handleRegenerateScript(index) ==
    /\ DashboardMounted
    /\ started < MaxCalls
    /\ index \in 1..Len(currentPlan.vendor_scripts)
    /\ isGeneratingScript' = TRUE
    /\ started' = started + 1
    /\ scriptCalls' = scriptCalls \cup
         {[id |-> started + 1, session |-> session, kind |-> "regenerate",
           index |-> index, scripts |-> currentPlan.vendor_scripts]}
    /\ UNCHANGED <<appVars, heroVars, currentPlan, chatHistory, chatInput,
                   isRefining, verifyingLegal, completedSteps, refineCalls,
                   verifyCalls, verifyLog, scriptContextInput, calcVars, pdf>>
    /\ last' = [op |-> "handleRegenerateScript", index |-> index]

\* a script call settles: lines 963-974 and 989-999
ScriptDone(c, r) ==
    /\ scriptCalls' = scriptCalls \ {c}
    /\ last' = [op |-> IF c.kind = "generate" THEN "generateDone" ELSE "regenerateDone",
                r |-> r, alive |-> DashAlive(c)]
    /\ UNCHANGED <<appVars, heroVars, chatHistory, chatInput, isRefining,
                   verifyingLegal, completedSteps, refineCalls, verifyCalls,
                   started, verifyLog, calcVars, pdf>>
    /\ IF ~DashAlive(c)
       THEN UNCHANGED <<currentPlan, scriptVars>>
       ELSE /\ isGeneratingScript' = FALSE
            /\ IF ParseThrows(r)
               THEN UNCHANGED <<currentPlan, scriptContextInput>>
               ELSE IF c.kind = "generate"
               THEN /\ currentPlan' =
                         [currentPlan EXCEPT !.vendor_scripts =
                             AppendScript(currentPlan.vendor_scripts, JSONParse(r))]
                    /\ scriptContextInput' = <<>>
               ELSE /\ currentPlan' =
                         [currentPlan EXCEPT !.vendor_scripts =
                             newScripts(c, JSONParse(r))]
                    /\ UNCHANGED scriptContextInput

----------------------------------------------------------------------------
(* The dashboard with its four backend operations and the checklist *)

ToolRefineResponses == {Rejected, JsonText(PlanB)}
ToolVerifyResponses == {Rejected, GarbageText} \cup AppVerifyResponses

NextTools ==
    \/ \E t \in {<<Space>>, <<"a">>} : SetScriptContextInput(t)
    \/ handleGenerateScript
    \/ handleRegenerateScript(1)
    \/ \E c \in scriptCalls, r \in ScriptResponses : ScriptDone(c, r)
    \/ \E i \in 1..2 : toggleStep(i)
    \/ RefineFromQuickPrompt(1)
    \/ \E c \in refineCalls, r \in ToolRefineResponses : RefineDone(c, r)
    \/ handleVerifyLegal(1)
    \/ \E c \in verifyCalls, r \in ToolVerifyResponses : VerifyDone(c, r)

SpecTools == InitDash /\ [][NextTools]_vars

----------------------------------------------------------------------------
(* PlanDashboard: the break-even calculator *)

\* String(n) for a natural number
RECURSIVE DigitsOf(_)
DigitsOf(n) ==
    IF n < 10 THEN <<Digits[n + 1]>>
    ELSE Append(DigitsOf(n \div 10), Digits[(n % 10) + 1])

\* e.target.value of the number inputs: the empty text of a cleared or invalid
\* field, amounts, one decimal
CalcAmounts == (0..MaxAmount) \cup {40, 50, 100, 1000, 6000}
CalcInputs == {DigitsOf(n) : n \in CalcAmounts} \cup {<<>>, <<"2", ".", "5">>}

setCustomPrice(t) ==
    /\ DashboardMounted
    /\ customPrice' = parseFloat(t)
    /\ UNCHANGED <<appVars, heroVars, currentPlan, chatHistory, chatInput,
                   isRefining, verifyingLegal, completedSteps, refineCalls,
                   verifyCalls, started, verifyLog, scriptVars,
                   customVariableCost, customFixedCost, scriptCalls, pdf>>
    /\ last' = [op |-> "setCustomPrice"]

setCustomVariableCost(t) ==
    /\ DashboardMounted
    /\ customVariableCost' = parseFloat(t)
    /\ UNCHANGED <<appVars, heroVars, currentPlan, chatHistory, chatInput,
                   isRefining, verifyingLegal, completedSteps, refineCalls,
                   verifyCalls, started, verifyLog, scriptVars,
                   customPrice, customFixedCost, scriptCalls, pdf>>
    /\ last' = [op |-> "setCustomVariableCost"]

setCustomFixedCost(t) ==
    /\ DashboardMounted
    /\ customFixedCost' = parseFloat(t)
    /\ UNCHANGED <<appVars, heroVars, currentPlan, chatHistory, chatInput,
                   isRefining, verifyingLegal, completedSteps, refineCalls,
                   verifyCalls, started, verifyLog, scriptVars,
                   customPrice, customVariableCost, scriptCalls, pdf>>
    /\ last' = [op |-> "setCustomFixedCost"]

breakEvenUnits ==
    CeilOfQuotient(customFixedCost, Minus(customPrice, customVariableCost))

\* what the calculator shows for the units: the number, or the sign for
\* infinity, which Unbounded stands for
Unbounded == [k |-> "unbounded", m |-> 0, e |-> 0]
BreakEvenShownWhenFinite ==
    IF isFinite(breakEvenUnits) THEN breakEvenUnits ELSE Unbounded
BreakEvenShown ==
    IF isFinite(breakEvenUnits) /\ Positive(breakEvenUnits) THEN breakEvenUnits
    ELSE Unbounded

NextCalc ==
    \/ \E t \in CalcInputs : setCustomPrice(t)
    \/ \E t \in CalcInputs : setCustomVariableCost(t)
    \/ \E t \in CalcInputs : setCustomFixedCost(t)

SpecCalc == InitDash /\ [][NextCalc]_vars

----------------------------------------------------------------------------
(* PlanDashboard: the calculator's values at mount *)

\* characters of currency texts: a letter, two digits, the two separators
CurrencyChars == {"R", "1", "0", ",", "."}
SeqsUpTo(S, n) == UNION {[1..k -> S] : k \in 0..n}
CurrencyTexts ==
    SeqsUpTo(CurrencyChars, MaxLen) \cup
    { <<"R", "1", ",", "2", "5", "0", " ", "p", "e", "r">>,
      <<"R", "1", "0", ",", "0", "0", "0", "/", "m">>,
      <<"v", "a", "r", "i", "e", "s">> }
CurrencyPlans ==
    {[PlanA EXCEPT !.financial_breakdown.variable_costs_per_unit = t] :
        t \in CurrencyTexts}

\* a PlanDashboard that has rendered once and whose mount effect has not run
InitCurrency ==
    /\ rootMounted = TRUE
    /\ generatedPlan \in CurrencyPlans
    /\ session = 0
    /\ handed = 1
    /\ transcript = <<>>
    /\ messages = <<UserTurn(<<"a">>)>>
    /\ processingState = "generating"
    /\ pipelines = {}
    /\ submitted = 1
    /\ currentPlan = generatedPlan
    /\ chatHistory = <<>>
    /\ chatInput = <<>>
    /\ isRefining = FALSE
    /\ verifyingLegal = 0
    /\ completedSteps = {}
    /\ scriptContextInput = <<>>
    /\ isGeneratingScript = FALSE
    /\ customPrice = Number(0)
    /\ customVariableCost = Number(0)
    /\ customFixedCost = Number(0)
    /\ scriptCalls = {}
    /\ pdf = PdfIdle
    /\ refineCalls = {}
    /\ verifyCalls = {}
    /\ started = 0
    /\ verifyLog = {}
    /\ last = [op |-> "mount"]

\* the effect that runs once after the first render
CalculatorEffect ==
    /\ DashboardMounted
    /\ last.op = "mount"
    /\ customPrice' = InitialPrice(currentPlan)
    /\ customVariableCost' = InitialVariableCost(currentPlan)
    /\ customFixedCost' = InitialFixedCost(currentPlan)
    /\ UNCHANGED <<appVars, heroVars, currentPlan, chatHistory, chatInput,
                   isRefining, verifyingLegal, completedSteps, refineCalls,
                   verifyCalls, started, verifyLog, scriptVars, scriptCalls, pdf>>
    /\ last' = [op |-> "calculatorEffect"]

NextCurrency == CalculatorEffect

SpecCurrency == InitCurrency /\ [][NextCurrency]_vars

----------------------------------------------------------------------------
(* PlanDashboard: handleDownloadPDF.  Vertical positions are counted in      *)
(* half millimetres, so that fontSize / 2 is a whole number of units.        *)

\* y = 20 at the top of a page; the tests y > 250 and y > 280
PageTop == 40
SectionBreakAt == 500
LineBreakAt == 560

\* lines.length of doc.splitTextToSize: the texts of the plans here are short
\* and fit in one line
LinesOf(text) == 1

\* addWrappedText at d.y: the text is written there, the new position is
\* yPos + lines.length * (fontSize / 2) + 2
addWrappedText(d, text, fontSize) ==
    [y |-> d.y + LinesOf(text) * fontSize + 4, at |-> Max(d.at, d.y)]

\* doc.text(..., 10, y)
Text(d) == [d EXCEPT !.at = Max(d.at, d.y)]

\* y += n millimetres
Advance(d, n) == [d EXCEPT !.y = @ + 2 * n]

\* if (y > limit) { doc.addPage(); y = 20; }
BreakAfter(d, limit) == IF d.y > limit THEN [d EXCEPT !.y = PageTop] ELSE d

\* the forEach over fixed_costs_monthly and the one over marketing_strategy
RECURSIVE Bullets(_, _)
Bullets(d, items) ==
    IF items = <<>> THEN d
    ELSE Bullets(addWrappedText(d, Head(items), 10), Tail(items))

\* the forEach over setup_checklist
RECURSIVE ChecklistLines(_, _)
ChecklistLines(d, steps) ==
    IF steps = <<>> THEN d
    ELSE ChecklistLines(BreakAfter(addWrappedText(d, Head(steps), 11), LineBreakAt),
                        Tail(steps))

\* the forEach over legal_requirements
RECURSIVE LegalLines(_, _)
LegalLines(d, reqs) ==
    IF reqs = <<>> THEN d
    ELSE LET d1 == addWrappedText(d, Head(reqs).name, 12)
             d2 == addWrappedText(d1, Head(reqs).step_by_step, 10)
             d3 == addWrappedText(d2, Head(reqs).estimated_cost, 10)
         IN  LegalLines(BreakAfter(Advance(d3, 4), LineBreakAt), Tail(reqs))

\* the document after handleDownloadPDF(plan): the last position and the
\* furthest position a text was written at
Export(plan) ==
    LET h1 == Advance(addWrappedText([y |-> PageTop, at |-> 0], "title", 24), 5)
        s1 == addWrappedText(h1, plan.idea_summary, 14)
        s2 == Advance(addWrappedText(s1, plan.target_location, 12), 10)
        f1 == addWrappedText(s2, "Financial Analysis", 16)
        f2 == addWrappedText(f1, plan.budget_estimate, 11)
        f3 == addWrappedText(f2, plan.estimated_daily_profit, 11)
        f4 == Advance(addWrappedText(f3, plan.financial_breakdown.break_even_analysis, 11), 5)
        f5 == Advance(Text(f4), 6)
        f6 == Advance(Bullets(f5, plan.financial_breakdown.fixed_costs_monthly), 5)
        c1 == addWrappedText(BreakAfter(f6, SectionBreakAt), "Execution Checklist", 16)
        c2 == Advance(ChecklistLines(c1, plan.setup_checklist), 10)
        l1 == addWrappedText(BreakAfter(c2, SectionBreakAt), "Legal", 16)
        l2 == LegalLines(l1, plan.legal_requirements)
        m1 == addWrappedText(BreakAfter(l2, SectionBreakAt), "Market Intelligence", 16)
        m2 == addWrappedText(m1, plan.market_insights, 11)
        m3 == Advance(addWrappedText(m2, plan.market_insights, 11), 5)
        m4 == Advance(Text(m3), 6)
        m5 == Bullets(m4, plan.marketing_strategy)
    IN  [section |-> "saved", y |-> m5.y, at |-> m5.at]

\* the Download button
handleDownloadPDF ==
    /\ DashboardMounted
    /\ pdf' = Export(currentPlan)
    /\ UNCHANGED <<appVars, heroVars, currentPlan, chatHistory, chatInput,
                   isRefining, verifyingLegal, completedSteps, refineCalls,
                   verifyCalls, started, verifyLog, scriptVars, calcVars,
                   scriptCalls>>
    /\ last' = [op |-> "handleDownloadPDF"]

\* n times the item
Copies(item, n) == [i \in 1..n |-> item]

\* plans with up to MaxItems entries in each of the four lists of the export
PdfPlans ==
    {[PlanA EXCEPT !.financial_breakdown.fixed_costs_monthly =
                       Copies(<<"R", "s", "5", "0", "0">>, n1),
                   !.setup_checklist = Copies("buy cart", n2),
                   !.legal_requirements = Copies(LegalA1, n3),
                   !.marketing_strategy = Copies("WhatsApp list", n4)] :
        n1 \in 0..MaxItems, n2 \in 0..MaxItems, n3 \in 0..MaxItems, n4 \in 0..MaxItems}

InitPdf ==
    /\ rootMounted = TRUE
    /\ generatedPlan \in PdfPlans
    /\ session = 0
    /\ handed = 1
    /\ transcript = <<>>
    /\ messages = <<UserTurn(<<"a">>)>>
    /\ processingState = "generating"
    /\ pipelines = {}
    /\ submitted = 1
    /\ currentPlan = generatedPlan
    /\ chatHistory = <<>>
    /\ chatInput = <<>>
    /\ isRefining = FALSE
    /\ verifyingLegal = 0
    /\ completedSteps = {}
    /\ scriptContextInput = <<>>
    /\ isGeneratingScript = FALSE
    /\ customPrice = InitialPrice(generatedPlan)
    /\ customVariableCost = InitialVariableCost(generatedPlan)
    /\ customFixedCost = InitialFixedCost(generatedPlan)
    /\ scriptCalls = {}
    /\ pdf = PdfIdle
    /\ refineCalls = {}
    /\ verifyCalls = {}
    /\ started = 0
    /\ verifyLog = {}
    /\ last = [op |-> "init"]

NextPdf == handleDownloadPDF

SpecPdf == InitPdf /\ [][NextPdf]_vars

----------------------------------------------------------------------------
(* Claims about the conversation state machine *)

\* a settled call of the pipeline that threw, or whose text JSON.parse rejects
\* where the text is parsed (the research text is not parsed)
PipelineFailure(l) ==
    /\ l.op \in {"analysisDone", "researchDone", "planDone"}
    /\ \/ l.r = Rejected
       \/ l.op # "researchDone" /\ ParseThrows(l.r)

\* C1: when a backend call of a submission throws, or returns text that is
\* not JSON where JSON is parsed, the step that handles it leaves the
\* processing state at idle, the turn history equal to the history before
\* the submit plus the user's turn plus one failure turn, hands no plan to
\* the consumer and ends the submission.
C1_FailureEndsIdle ==
    [][PipelineFailure(last') =>
         \E p \in pipelines :
            /\ pipelines' = pipelines \ {p}
            /\ processingState' = "idle"
            /\ messages' = p.messages0 \o <<UserTurn(p.userText), AiTurn(ErrorText)>>
            /\ handed' = handed
            /\ generatedPlan' = generatedPlan
            /\ ~Truthy(generatedPlan')]_vars

\* C1 witness: the plan call of a second submission has failed
C1_Witness ==
    /\ last.op = "planDone"
    /\ last.r = GarbageText
    /\ Len(messages) = 4
    /\ processingState = "idle"

\* C2: a submission is accepted only in idle, with no pipeline in flight, and
\* at most one pipeline is in flight in every state.
C2_SubmitNotReentrant ==
    [][/\ Cardinality(pipelines') <= 1
       /\ submitted' # submitted => processingState = "idle" /\ pipelines = {}]_vars

\* C2 witness: new text is in the input while a pipeline is in flight
C2_Witness ==
    /\ Cardinality(pipelines) = 1
    /\ processingState = "researching"
    /\ TruthyText(Trim(transcript))
    /\ submitted < MaxSubmits

AllowedTransitions ==
    { <<"idle", "analyzing">>, <<"analyzing", "idle">>,
      <<"analyzing", "researching">>, <<"researching", "generating">>,
      <<"researching", "idle">>, <<"generating", "idle">> }

\* C3: every change of the processing state is idle -> analyzing,
\* analyzing -> idle, analyzing -> researching, researching -> generating or
\* generating -> idle, or researching -> idle when the research call failed.
C3_StateOrder ==
    [][processingState' # processingState =>
         /\ <<processingState, processingState'>> \in AllowedTransitions
         /\ <<processingState, processingState'>> = <<"researching", "idle">>
              => PipelineFailure(last')]_vars

\* C3 witness: a submission went through every stage and a later one is
\* being analysed
C3_Witness ==
    /\ handed = 1
    /\ session = 1
    /\ processingState = "analyzing"

----------------------------------------------------------------------------
(* Claims about refinement *)

\* a refine call settled in the dashboard that started it
RefineSettled(l) == l.op = "refineDone" /\ l.alive

\* ... and its text was present and parsed
RefineSucceeded(l) ==
    RefineSettled(l) /\ TruthyResponseText(l.r) /\ ~ParseThrows(l.r)

TwoTurns == <<AiTurn(ConfirmText), AiTurn(SolicitText)>>

\* C4: when a refine call succeeds, the current plan becomes exactly the
\* parsed response, whatever the plan was before, and the confirmation turn
\* followed by the rating solicitation turn are appended to the refinement
\* history, and nothing else is.
C4_RefineOverwrites ==
    [][RefineSucceeded(last') =>
         /\ currentPlan' = JSONParse(last'.r)
         /\ chatHistory' = chatHistory \o TwoTurns]_vars

\* C4 witness: a refine succeeded on a plan whose first legal entry had been
\* patched by a verify, and the plan shown is the response, unpatched
C4_Witness ==
    /\ RefineSucceeded(last)
    /\ \E e \in verifyLog : "name" \in DOMAIN e.patch
    /\ currentPlan = PlanA
    /\ Len(chatHistory) = 3

\* C5: every accepted refine call ends either with the plan replaced and the
\* two turns appended, or with the plan unchanged and one apology appended.
C5_RefineTwoOutcomes ==
    [][RefineSettled(last') =>
         \/ /\ ~ParseThrows(last'.r)
            /\ currentPlan' = JSONParse(last'.r)
            /\ chatHistory' = chatHistory \o TwoTurns
         \/ /\ currentPlan' = currentPlan
            /\ chatHistory' = Append(chatHistory, AiTurn(ApologyText))]_vars

\* C6: at most one refine call is in flight.
C6_OneRefineInFlight == Cardinality(refineCalls) <= 1

----------------------------------------------------------------------------
(* Claims about verification *)

\* a verify call settled in the dashboard that started it
VerifySettled(l) == l.op = "verifyDone" /\ l.alive

\* entry carries every field of the patch
Carries(entry, patch) ==
    \A f \in DOMAIN Props(patch) : f \in DOMAIN entry /\ entry[f] = Props(patch)[f]

\* C7: when two verify calls of distinct indices were in flight together and
\* both have succeeded, and nothing else has changed the plan, each of the two
\* entries carries the patch returned for it.
C7_DistinctVerifiesKeepBoth ==
    \A e1, e2 \in verifyLog :
        ( /\ e1.index # e2.index
          /\ e1.id \in e2.concurrent
          /\ verifyLog = {e1, e2}
          /\ verifyCalls = {}
          /\ chatHistory = <<>> )
        => /\ Carries(currentPlan.legal_requirements[e1.index], e1.patch)
           /\ Carries(currentPlan.legal_requirements[e2.index], e2.patch)

OtherPlanFields == DOMAIN PlanA \ {"legal_requirements"}

\* C8: when a verify of index i settles and the plan is the one the verify
\* was started on, the list of legal requirements keeps its length, every
\* entry at another index is unchanged and every other plan field is unchanged.
C8_VerifyFrame ==
    [][VerifySettled(last') =>
         \A c \in verifyCalls :
            (verifyCalls' = verifyCalls \ {c} /\ c.plan = currentPlan) =>
               /\ Len(currentPlan'.legal_requirements)
                    = Len(currentPlan.legal_requirements)
               /\ \A j \in 1..Len(currentPlan.legal_requirements) :
                     j # c.index =>
                        currentPlan'.legal_requirements[j]
                          = currentPlan.legal_requirements[j]
               /\ \A f \in OtherPlanFields : currentPlan'[f] = currentPlan[f]]_vars

\* C8 witness: the first entry of PlanA was patched, the second is intact
C8_Witness ==
    /\ VerifySettled(last)
    /\ last.r # JsonText(JsonNull)
    /\ ~ParseThrows(last.r)
    /\ Len(currentPlan.legal_requirements) = 2
    /\ currentPlan.legal_requirements[1].estimated_cost = "Rs 200"
    /\ currentPlan.legal_requirements[2] = LegalA2

UnscopedFields == {"name", "step_by_step", "learn_more_url"}

\* C10: when a verify of index i settles on the plan it was started on, the
\* name, step_by_step and learn_more_url of entry i are what they were.
C10_VerifyScoped ==
    [][VerifySettled(last') =>
         \A c \in verifyCalls :
            (verifyCalls' = verifyCalls \ {c} /\ c.plan = currentPlan) =>
               \A f \in UnscopedFields :
                  currentPlan'.legal_requirements[c.index][f]
                    = currentPlan.legal_requirements[c.index][f]]_vars

----------------------------------------------------------------------------
(* Claims about reset, validation and the steps of a submission *)

\* a refine or verify call started by a dashboard that a reset has unmounted
\* since settles in this step
StaleCallSettles ==
    \/ \E c \in refineCalls : c.session # session /\ refineCalls' = refineCalls \ {c}
    \/ \E c \in verifyCalls : c.session # session /\ verifyCalls' = verifyCalls \ {c}

\* C11: a reset leaves no plan, an empty conversation and the idle state, and
\* the settling of a call that was started before a reset changes nothing of
\* what is shown: not the plan of App, not the conversation, not the plan,
\* the refinement history, the completed steps or the busy flags of a
\* dashboard mounted after the reset.
C11_StaleCallsChangeNothing ==
    [][/\ last'.op = "reset" =>
            /\ ~Truthy(generatedPlan')
            /\ messages' = <<>>
            /\ processingState' = "idle"
       /\ StaleCallSettles =>
            UNCHANGED <<rootMounted, generatedPlan, handed, transcript, messages,
                        processingState, currentPlan, chatHistory, chatInput,
                        isRefining, verifyingLegal, completedSteps>>]_vars

\* C11 witness: a refine started before the reset has settled while the
\* dashboard of a later plan is shown with a step ticked
C11_Witness ==
    /\ last.op = "refineDone"
    /\ ~last.alive
    /\ DashboardMounted
    /\ session = 1
    /\ currentPlan = PlanA
    /\ completedSteps = {1}

\* the required list of planSchema
planRequired ==
    {"idea_summary", "target_location", "budget_estimate", "business_plan",
     "market_insights", "financial_breakdown", "marketing_strategy",
     "setup_checklist", "legal_requirements", "vendor_scripts",
     "estimated_daily_profit", "optimization_suggestions"}

\* a parsed value is an object that has every required field of planSchema
MatchesPlanSchema(v) == v # JsonNull /\ planRequired \subseteq DOMAIN v

\* C12: when the plan call or a refine call returns text that parses as JSON
\* but does not match the schema of BusinessPlan, the value is not handed to
\* App and does not become the plan of App or of the dashboard.
C12_MismatchIsFailure ==
    [][(/\ last'.op \in {"planDone", "refineDone"}
        /\ ~ParseThrows(last'.r)
        /\ ~MatchesPlanSchema(JSONParse(last'.r)))
       => /\ handed' = handed
          /\ generatedPlan' = generatedPlan
          /\ currentPlan' = currentPlan]_vars

\* a text that String.prototype.trim reduces to the empty string
Blank(s) == \A i \in 1..Len(s) : s[i] = Space

\* C13: a submit whose input is empty or all blanks changes neither the turn
\* history nor the processing state nor the plan, and starts no backend call.
C13_BlankSubmitDoesNothing ==
    [][(last'.op = "startAnalysis" /\ Blank(transcript)) =>
         UNCHANGED <<messages, processingState, generatedPlan, handed,
                     currentPlan, pipelines, submitted>>]_vars

\* C13 witness: a blank was submitted after an earlier submission had failed
C13_Witness ==
    /\ last.op = "startAnalysis"
    /\ ~last.accepted
    /\ transcript = <<Space>>
    /\ Len(messages) = 2
    /\ pipelines = {}

\* the analysis call returned an object whose is_sufficient is false
Insufficient(l) ==
    /\ l.op = "analysisDone"
    /\ ~ParseThrows(l.r)
    /\ JSONParse(l.r) # JsonNull
    /\ "is_sufficient" \in DOMAIN JSONParse(l.r)
    /\ ~JSONParse(l.r).is_sufficient

\* C14: when the analysis result has is_sufficient false, one ai turn is
\* appended whose text is the clarification question, or the fallback
\* question when the result has none or an empty one, so its text is not
\* empty; the processing state is idle and the submission ends there, with no
\* research call and no plan call.
C14_InsufficientAsksOnce ==
    [][Insufficient(last') =>
         LET a == JSONParse(last'.r)
             asked == IF "clarification_question" \in DOMAIN a
                         /\ a.clarification_question # <<>>
                      THEN a.clarification_question
                      ELSE ClarifyFallback
         IN  /\ \E p \in pipelines : p.stage = "analysis" /\ pipelines' = pipelines \ {p}
             /\ processingState' = "idle"
             /\ messages' = Append(messages, AiTurn(asked))
             /\ asked # <<>>
             /\ handed' = handed]_vars

\* C14 witness: the analysis gave an empty question and the fallback was asked
C14_Witness ==
    /\ Insufficient(last)
    /\ "clarification_question" \in DOMAIN JSONParse(last.r)
    /\ JSONParse(last.r).clarification_question = <<>>
    /\ messages[Len(messages)] = AiTurn(ClarifyFallback)
    /\ processingState = "idle"

\* C15: when the plan call returns text that parses as JSON, the plan is
\* handed to App once, and the Hero, if it is still shown, is idle.
C15_HandedOnceThenIdle ==
    [][(last'.op = "planDone" /\ ~ParseThrows(last'.r)) =>
         /\ handed' = handed + 1
         /\ HeroMounted' => processingState' = "idle"]_vars

\* C16: a submission starts with the analysis call; its research call is
\* issued only when the analysis call has returned is_sufficient true, its
\* plan call only when the research call has returned; a submission never
\* goes back to a call it has made, and a new run of calls starts only with a
\* submit of the user.
C16_CallOrder ==
    [][\A q \in pipelines' :
         LET before == {p \in pipelines : p.id = q.id}
         IN  /\ before = {} =>
                  /\ q.stage = "analysis"
                  /\ last'.op = "startAnalysis"
                  /\ q.id = submitted'
                  /\ submitted' = submitted + 1
             /\ \A p \in before :
                  p.stage # q.stage =>
                     \/ /\ p.stage = "analysis"
                        /\ q.stage = "research"
                        /\ last'.op = "analysisDone"
                        /\ ~ParseThrows(last'.r)
                        /\ "is_sufficient" \in DOMAIN JSONParse(last'.r)
                        /\ JSONParse(last'.r).is_sufficient
                     \/ /\ p.stage = "research"
                        /\ q.stage = "plan"
                        /\ last'.op = "researchDone"
                        /\ last'.r # Rejected]_vars

\* C16 witness: the second submission waits for its plan call
C16_Witness == \E p \in pipelines : p.id = 2 /\ p.stage = "plan"

\* C17: the conversation sent with the analysis call of a submission is, turn
\* by turn and in order, every turn of the conversation before the submit,
\* followed by the text just submitted as a user turn.
C17_WholeHistorySent ==
    [][\A q \in pipelines' :
         (\A p \in pipelines : p.id # q.id) =>
            historyText(q) =
               [i \in 1..(Len(messages) + 1) |->
                   IF i <= Len(messages)
                   THEN <<ToUpperCase(messages[i].role), messages[i].text>>
                   ELSE <<"USER", transcript>>]]_vars

\* C17 witness: an analysis call is in flight that was sent a user turn, an
\* ai turn and the new text
C17_Witness ==
    \E p \in pipelines :
        /\ p.stage = "analysis"
        /\ Len(p.messages0) = 2
        /\ p.messages0[2].role = "ai"
        /\ messages = newMessagesOf(p)

----------------------------------------------------------------------------
(* Claims about the turn sequences and the life of the plan *)

RoleText(turn) == <<turn.role, turn.text>>

Rating(turn) == IF "feedback" \in DOMAIN turn THEN turn.feedback ELSE "none"

\* b has the turns of a, with their role and text, at its first positions
Extends(b, a) ==
    /\ Len(a) <= Len(b)
    /\ \A i \in 1..Len(a) : RoleText(b[i]) = RoleText(a[i])

\* this step mounts a PlanDashboard, whose refinement history starts empty
MountsDashboard == ~Truthy(generatedPlan) /\ Truthy(generatedPlan')

\* C18: but for a reset, which starts a new conversation, and the mounting of
\* a dashboard, which starts a new refinement history, every step keeps the
\* turns of both sequences in place with their role and text; no turn of the
\* conversation carries a rating, a turn is appended unrated, and a step
\* changes the rating of a refinement turn only if that turn is an ai turn
\* and the last of the history.
C18_AppendOnly ==
    [][/\ last'.op # "reset" => Extends(messages', messages)
       /\ \A i \in 1..Len(messages') : Rating(messages'[i]) = "none"
       /\ ~MountsDashboard =>
            /\ Extends(chatHistory', chatHistory)
            /\ \A i \in 1..Len(chatHistory') :
                  IF i > Len(chatHistory)
                  THEN Rating(chatHistory'[i]) = "none"
                  ELSE Rating(chatHistory'[i]) # Rating(chatHistory[i]) =>
                          /\ chatHistory[i].role = "ai"
                          /\ i = Len(chatHistory)
                          /\ last'.op = "handleFeedback"]_vars

\* C18 witness: a rated turn kept its rating while a later refine appended
\* turns after it, in the dashboard of a conversation that has turns
C18_Witness ==
    /\ DashboardMounted
    /\ Len(messages) >= 1
    /\ Len(chatHistory) = 4
    /\ Rating(chatHistory[3]) = "up"
    /\ chatHistory[4].role = "user"

\* C19: a rating leaves the length of the refinement history, the role and
\* text of every turn, every other turn and the plan as they were, and sets
\* the rating of the turn at the index; for an index that has no turn the
\* history is returned as it was.
C19_RateFrame ==
    [][last'.op = "handleFeedback" =>
         /\ Len(chatHistory') = Len(chatHistory)
         /\ \A j \in 1..Len(chatHistory) :
               /\ RoleText(chatHistory'[j]) = RoleText(chatHistory[j])
               /\ j # last'.index => chatHistory'[j] = chatHistory[j]
         /\ Rating(chatHistory'[last'.index]) = last'.type
         /\ currentPlan' = currentPlan
         /\ generatedPlan' = generatedPlan
         /\ messages' = messages
         /\ \A i \in 0..(Len(chatHistory) + 1), t \in FeedbackTypes :
               i \notin 1..Len(chatHistory) =>
                  newHistory(chatHistory, i, t) = chatHistory]_vars

\* C19 witness: the last of three turns was rated down, the others are unrated
C19_Witness ==
    /\ last.op = "handleFeedback"
    /\ last.type = "down"
    /\ Len(chatHistory) = 3
    /\ Rating(chatHistory[3]) = "down"
    /\ Rating(chatHistory[2]) = "none"
    /\ chatInput = AdjustText

\* C20: while App holds a generated plan, the dashboard has a plan.
C20_PlanKeptUntilReset == Truthy(generatedPlan) => Truthy(currentPlan)

----------------------------------------------------------------------------
(* Claims about the entry conditions of verify and refine, the research query *)

\* C21: no two verify calls in flight are for the same index of
\* legal_requirements.
C21_OneVerifyPerIndex ==
    \A c1, c2 \in verifyCalls : c1.index = c2.index => c1 = c2

\* C22: a submit of the refine form whose input is empty or all blanks (the
\* quick prompts are fixed texts that are not blank) starts no backend call
\* and changes neither the refinement history nor the plan nor the refining
\* flag.
C22_BlankRefineDoesNothing ==
    [][/\ (last'.op = "handleRefine" /\ last'.via = "form" /\ Blank(chatInput)) =>
            UNCHANGED <<refineCalls, started, chatHistory, currentPlan, isRefining>>
       /\ \A i \in 1..Len(quickRefinePrompts) : ~Blank(quickRefinePrompts[i])]_vars

\* C22 witness: a blank was submitted in the form after an earlier refine
C22_Witness ==
    /\ last.op = "handleRefine"
    /\ last.via = "form"
    /\ ~last.accepted
    /\ chatInput = <<Space>>
    /\ Len(chatHistory) >= 2
    /\ refineCalls = {}

\* the analysis result has a search_query that is not the empty string
Supplied(a) == "search_query" \in DOMAIN a /\ a.search_query # <<>>

\* the analysis results that name the same business and location as a
SameTarget(a) ==
    {b \in AnalysisJson \ {JsonNull} :
        /\ Interpolate(b, "identified_business") = Interpolate(a, "identified_business")
        /\ Interpolate(b, "identified_location") = Interpolate(a, "identified_location")}

FiveTopics ==
    {"1. Exact government permits fees and process for",
     "2. Real estate rental listings for commercial shop in",
     "3. Wholesale rates for raw materials for",
     "4. Competitor menu pricing.",
     "5. Specific government schemes for street vendors or small business in"}

\* C23: the query of the research call is the search_query of the analysis
\* result when that has one; otherwise it is the query that every analysis
\* result naming the same business and location and no search_query gives,
\* and it has the five topics.
C23_ResearchQuery ==
    \A p \in pipelines :
        p.stage \in {"research", "plan"} =>
           IF Supplied(p.analysis)
           THEN p.query = p.analysis.search_query
           ELSE /\ \A b \in SameTarget(p.analysis) :
                      ~Supplied(b) => ResearchQuery(b) = p.query
                /\ \A t \in FiveTopics : \E i \in 1..Len(p.query) : p.query[i] = t

\* C23 witness: a research call is in flight whose analysis named a business
\* and a location and no search_query
C23_Witness ==
    \E p \in pipelines :
        /\ p.stage = "research"
        /\ ~Supplied(p.analysis)
        /\ "identified_business" \in DOMAIN p.analysis
        /\ Len(p.query) > 5

----------------------------------------------------------------------------
(* Claims about vendor scripts and the checklist *)

\* C24: a script generation whose answer parses appends exactly one script at
\* the end of the list, every other script keeps its position and every other
\* plan field its value; a generation that fails, and a submit with an empty
\* (blank) context, leave the plan unchanged.
C24_GenerateAppendsOne ==
    [][ /\ (last'.op = "generateDone" /\ last'.alive /\ ~ParseThrows(last'.r)) =>
            /\ Len(currentPlan'.vendor_scripts) = Len(currentPlan.vendor_scripts) + 1
            /\ \A i \in 1..Len(currentPlan.vendor_scripts) :
                   currentPlan'.vendor_scripts[i] = currentPlan.vendor_scripts[i]
            /\ currentPlan'.vendor_scripts[Len(currentPlan'.vendor_scripts)]
                   = JSONParse(last'.r)
            /\ DOMAIN currentPlan' = DOMAIN currentPlan
            /\ \A f \in DOMAIN currentPlan \ {"vendor_scripts"} :
                   currentPlan'[f] = currentPlan[f]
        /\ (last'.op = "generateDone" /\ ParseThrows(last'.r)) =>
            currentPlan' = currentPlan
        /\ (last'.op = "handleGenerateScript" /\ Blank(scriptContextInput)) =>
            /\ currentPlan' = currentPlan
            /\ scriptCalls' = scriptCalls
      ]_vars

\* a generation has appended a third script to a plan that had two
C24_Witness ==
    /\ last.op = "generateDone"
    /\ last.alive
    /\ ~ParseThrows(last.r)
    /\ Len(currentPlan.vendor_scripts) >= 2
    /\ currentPlan.vendor_scripts[Len(currentPlan.vendor_scripts)] = JSONParse(last.r)
    /\ currentPlan.vendor_scripts[1] # JSONParse(last.r)

\* C28: completedSteps changes only in a toggleStep step; toggleStep(i) flips
\* the membership of i and of nothing else (so a second toggle restores the
\* set) and leaves the plan alone; no step of refine, verify, script
\* generation or regeneration changes completedSteps.
C28_OnlyToggleChangesSteps ==
    [][ /\ completedSteps' # completedSteps => last'.op = "toggleStep"
        /\ last'.op = "toggleStep" =>
            /\ (last'.index \in completedSteps') = (last'.index \notin completedSteps)
            /\ completedSteps' \ {last'.index} = completedSteps \ {last'.index}
            /\ currentPlan' = currentPlan
      ]_vars

\* a step was un-ticked by a second toggle while another step stays ticked,
\* after a refine replaced the plan
C28_Witness ==
    /\ last.op = "toggleStep"
    /\ last.index \notin completedSteps
    /\ completedSteps # {}
    /\ currentPlan # generatedPlan

----------------------------------------------------------------------------
(* Claims about the calculator *)

NonNegInt(x) == isFinite(x) /\ x.e = 0 /\ x.m >= 0

\* C25: for non-negative integer price, variable cost and fixed cost with
\* price > variable cost, the break-even value is the least integer u with
\* u * (price - variable cost) >= fixed cost, that is
\* ceil(fixedCost / (price - variableCost)); 100, 40 and 6000 give 100.
C25_BreakEvenIsCeil ==
    /\ (/\ NonNegInt(customPrice)
        /\ NonNegInt(customVariableCost)
        /\ NonNegInt(customFixedCost)
        /\ customPrice.m > customVariableCost.m) =>
           LET d == customPrice.m - customVariableCost.m
               u == breakEvenUnits
           IN  /\ isFinite(u)
               /\ u.e = 0
               /\ u.m * d >= customFixedCost.m
               /\ (u.m - 1) * d < customFixedCost.m
    /\ (/\ customPrice = Number(100)
        /\ customVariableCost = Number(40)
        /\ customFixedCost = Number(6000)) => breakEvenUnits = Number(100)

\* the fixed cost was typed last, a quotient that is not an integer is rounded up
C25_Witness ==
    /\ last.op = "setCustomFixedCost"
    /\ customPrice = Number(100)
    /\ customVariableCost = Number(40)
    /\ customFixedCost = Number(5)
    /\ breakEvenUnits = Number(1)

FiniteOrNaN(x) == isFinite(x) \/ x = NaN
AtMost(x, y) == isFinite(x) /\ isFinite(y) /\ ~Positive(Minus(x, y))

FirstRun(s) ==
    IF \A i \in 1..Len(s) : ~InClass(s[i]) THEN <<>>
    ELSE LET a == CHOOSE i \in 1..Len(s) :
                      InClass(s[i]) /\ \A j \in 1..(i - 1) : ~InClass(s[j])
             b == CHOOSE i \in a..Len(s) :
                      /\ \A j \in a..i : InClass(s[j])
                      /\ i = Len(s) \/ ~InClass(s[i + 1])
         IN  SubSeq(s, a, b)

\* the run writes a number: it has a digit and at most one decimal point
WritesNumber(run) ==
    /\ \E i \in 1..Len(run) : IsDigit(run[i])
    /\ Cardinality({i \in 1..Len(run) : run[i] = "."}) <= 1

\* the number a run writes once its commas are dropped
WrittenNumber(run) ==
    LET dots  == {i \in 1..Len(run) : run[i] = "."}
        after == IF dots = {} THEN 0
                 ELSE Cardinality({i \in 1..Len(run) :
                                      IsDigit(run[i]) /\ \A p \in dots : i > p})
    IN  Decimal(NatOf(SelectSeq(run, IsDigit)), after)

\* C27: parseCurrency returns the number written by the first run of digits
\* and separators with the commas removed, and 0 for a string without such a
\* run, the empty string included.
C27_ParseCurrency ==
    last.op = "calculatorEffect" =>
        LET str == currentPlan.financial_breakdown.variable_costs_per_unit
        IN  /\ FirstRun(str) = <<>> => customVariableCost = Number(0)
            /\ WritesNumber(FirstRun(str)) =>
                   customVariableCost = WrittenNumber(FirstRun(str))

\* "R1,250 per" was parsed to 1250
C27_Witness ==
    /\ last.op = "calculatorEffect"
    /\ currentPlan.financial_breakdown.variable_costs_per_unit
         = <<"R", "1", ",", "2", "5", "0", " ", "p", "e", "r">>
    /\ customVariableCost = Number(1250)

----------------------------------------------------------------------------
(* Claims about the export *)

\* C29: whatever the numbers of fixed costs, checklist steps, legal entries
\* and marketing strategies of the plan, the export writes no line at a
\* vertical position beyond the page-break threshold (y = 280).
C29_NoLineBeyondThreshold == pdf.at <= LineBreakAt

----------------------------------------------------------------------------
(* Claims about termination *)

\* C30: every accepted submission terminates.  Once every backend call of the
\* Hero on screen has returned or failed, nothing but a new submission can
\* change its state, so termination requires that a Hero without a call in
\* flight is Idle (the other way to end, a plan shown, replaces the Hero).
C30_NoCallInFlightMeansIdle ==
    (HeroMounted /\ \A p \in pipelines : p.session # session) =>
        processingState = "idle"

----------------------------------------------------------------------------
(* Claims about operations that overlap, and about failures of verify *)

\* a refinement replaced the plan after the call c captured it: only a
\* refinement changes a field other than the two lists the patches write
RefinedSince(c) ==
    \E f \in DOMAIN currentPlan \ {"legal_requirements", "vendor_scripts"} :
        currentPlan[f] # c.plan[f]

\* C31: a verify call started before a refinement and completing after it
\* brings back no pre-refinement data: legal_requirements keeps the length it
\* has in the refined plan and every entry at an index other than the
\* verified one is the entry of the refined plan.
C31_VerifyKeepsRefinedEntries ==
    [][\A c \in verifyCalls :
          (/\ c \notin verifyCalls'
           /\ last'.op = "verifyDone" /\ last'.alive /\ last'.r.t = "json"
           /\ RefinedSince(c)) =>
              /\ Len(currentPlan'.legal_requirements)
                   = Len(currentPlan.legal_requirements)
              /\ \A i \in 1..Len(currentPlan.legal_requirements) :
                     i # c.index =>
                        currentPlan'.legal_requirements[i]
                          = currentPlan.legal_requirements[i]
      ]_vars

FailedResponses == {Rejected, NoText, EmptyText, GarbageText}

\* C34: a verify call that fails (the call rejects, or its text is missing or
\* is not JSON) leaves the plan unchanged, appends no turn to the chat history
\* or to the conversation, and ends with verifyingLegal cleared.
C34_FailedVerifyChangesNothing ==
    [][(last'.op = "verifyDone" /\ last'.alive /\ last'.r \in FailedResponses) =>
          /\ currentPlan' = currentPlan
          /\ chatHistory' = chatHistory
          /\ messages' = messages
          /\ verifyingLegal' = 0
      ]_vars

\* a verify of an entry ended on text that is not JSON
C34_Witness ==
    /\ last.op = "verifyDone"
    /\ last.alive
    /\ last.r = GarbageText
    /\ verifyingLegal = 0
    /\ verifyCalls = {}

\* C32: a script in vendor_scripts is not lost to a script operation: a step
\* of script generation or regeneration keeps every script of the list at its
\* index, except the one script a regeneration replaces.
C32_ScriptsNotLost ==
    [][\A c \in scriptCalls :
          (c \notin scriptCalls' /\ last'.op \in {"generateDone", "regenerateDone"}) =>
              /\ Len(currentPlan'.vendor_scripts) >= Len(currentPlan.vendor_scripts)
              /\ \A i \in 1..Len(currentPlan.vendor_scripts) :
                     (c.kind = "generate" \/ i # c.index) =>
                        currentPlan'.vendor_scripts[i] = currentPlan.vendor_scripts[i]
      ]_vars

\* C33: a regeneration of index k that completes on the list it was started on
\* keeps the length of vendor_scripts, every script at another index and every
\* other plan field, and puts the new script at k; a regeneration that fails
\* leaves the plan unchanged.
C33_RegenerateFrame ==
    [][\A c \in scriptCalls :
          (c \notin scriptCalls' /\ last'.op = "regenerateDone" /\ last'.alive) =>
              /\ (last'.r.t = "json" /\ currentPlan.vendor_scripts = c.scripts) =>
                    /\ Len(currentPlan'.vendor_scripts) = Len(currentPlan.vendor_scripts)
                    /\ \A i \in 1..Len(currentPlan.vendor_scripts) :
                           i # c.index =>
                              currentPlan'.vendor_scripts[i]
                                = currentPlan.vendor_scripts[i]
                    /\ currentPlan'.vendor_scripts[c.index] = last'.r.v
                    /\ DOMAIN currentPlan' = DOMAIN currentPlan
                    /\ \A f \in DOMAIN currentPlan \ {"vendor_scripts"} :
                           currentPlan'[f] = currentPlan[f]
              /\ last'.r \in FailedResponses => currentPlan' = currentPlan
      ]_vars

\* the first of two scripts was regenerated, the second, generated before, is
\* still in place
C33_Witness ==
    /\ last.op = "regenerateDone"
    /\ last.alive
    /\ last.r.t = "json"
    /\ Len(currentPlan.vendor_scripts) = 2
    /\ currentPlan.vendor_scripts[1] = last.r.v
    /\ currentPlan.vendor_scripts[2] # last.r.v

----------------------------------------------------------------------------
(* Claims about the indicators and the checklist *)

\* C35: in every state of a dashboard on screen, isRefining is true while one
\* of its refine calls is in flight, verifyingLegal is set while one of its
\* verify calls is in flight, and isGeneratingScript is true while one of its
\* script calls is in flight.
C35_IndicatorsAgree ==
    DashboardMounted =>
        /\ (\E c \in refineCalls : c.session = session) => isRefining
        /\ (\E c \in verifyCalls : c.session = session) => verifyingLegal # 0
        /\ (\E c \in scriptCalls : c.session = session) => isGeneratingScript

\* C36: every index in completedSteps is an index of the current plan's
\* setup_checklist, so the count shown does not exceed the checklist's length.
C36_CompletedStepsValid ==
    DashboardMounted =>
        /\ completedSteps \subseteq 1..Len(currentPlan.setup_checklist)
        /\ Cardinality(completedSteps) <= Len(currentPlan.setup_checklist)

----------------------------------------------------------------------------
(* Further claims about parseCurrency and the calculator display *)

\* C37: parseCurrency returns a defined, non-negative number for every string:
\* whatever the text of variable_costs_per_unit, the value the mount effect
\* stores for it is a finite number that is not negative, never NaN.
C37_NeverNaN ==
    last.op = "calculatorEffect" =>
        /\ customVariableCost # NaN
        /\ isFinite(customVariableCost)
        /\ customVariableCost.m >= 0

\* C38: for non-negative integer price, variable cost and fixed cost with
\* price > variable cost the calculator shows the number
\* ceil(fixedCost / (price - variableCost)), not the marker; the marker is
\* shown only when price <= variable cost.
C38_NumberShown ==
    /\ (/\ NonNegInt(customPrice)
        /\ NonNegInt(customVariableCost)
        /\ NonNegInt(customFixedCost)
        /\ customPrice.m > customVariableCost.m) =>
           /\ BreakEvenShown # Unbounded
           /\ BreakEvenShown = breakEvenUnits
    /\ (/\ NonNegInt(customPrice)
        /\ NonNegInt(customVariableCost)
        /\ NonNegInt(customFixedCost)
        /\ BreakEvenShown = Unbounded) =>
           customPrice.m <= customVariableCost.m

====
